---- MODULE Spec2Model ----
(***************************************************************************)
(* Model of the transcript pipeline of app.py: chunk_segments merges the   *)
(* time-stamped transcription segments into chunks, chapter_detection      *)
(* groups consecutive chunks into chapters, and the main script renders    *)
(* the chapters as "[start-end] text" lines.                               *)
(*                                                                         *)
(* A Python str is a sequence of one-character strings; " " is the only    *)
(* whitespace character.  Times are whole seconds.  A cosine similarity is *)
(* an integer number of hundredths (0.65 is 65).                           *)
(***************************************************************************)
EXTENDS Integers, Sequences, FiniteSets, TLC

VARIABLES segments, max_words, chunks, current, start, end, i,
          embeds, chapters, ci, transcript, fi, pc, err

vars == <<segments, max_words, chunks, current, start, end, i,
          embeds, chapters, ci, transcript, fi, pc, err>>

\* ---------------------------------------------------------------- bounds
MaxSegs == 3
MaxM == 2
MaxChunks == 4

\* ------------------------------------------------------------- constants
\* Python's None (start, end = None, None); no time value is negative.
None == -1
\* the literal 0.65 of chapter_detection, in hundredths
Threshold == 65

\* ------------------------------------------------------------ input sets
Texts ==
  { <<>>,
    <<" ">>,
    <<" ", "a">>,
    <<"b", " ", "c">>,
    <<"a", " ", "b", " ", "c">> }

TimePairs == { <<0, 1>>, <<1, 1>>, <<1, 2>> }

SegOptions ==
  { [text |-> t, start |-> p[1], end |-> p[2]] : t \in Texts, p \in TimePairs }

ChunkOptions == { <<0, 1, <<"a">>>>, <<1, 2, <<"b", " ", "c">>>> }

SimVals == { 64, 65, 66 }

SeqsUpTo(S, n) == UNION { [1..k -> S] : k \in 0..n }

\* ------------------------------------------------------------ str methods
RECURSIVE SplitAcc(_, _, _)
SplitAcc(s, word, acc) ==
  IF s = <<>>
  THEN IF word = <<>> THEN acc ELSE Append(acc, word)
  ELSE IF Head(s) = " "
       THEN SplitAcc(Tail(s), <<>>, IF word = <<>> THEN acc ELSE Append(acc, word))
       ELSE SplitAcc(Tail(s), Append(word, Head(s)), acc)

\* str.split(): the maximal runs of non-whitespace characters
Split(s) == SplitAcc(s, <<>>, <<>>)

RECURSIVE LStrip(_)
LStrip(s) ==
  IF s # <<>> /\ Head(s) = " " THEN LStrip(Tail(s)) ELSE s

RECURSIVE RStrip(_)
RStrip(s) ==
  IF s # <<>> /\ s[Len(s)] = " " THEN RStrip(SubSeq(s, 1, Len(s) - 1)) ELSE s

\* str.strip()
Strip(s) == RStrip(LStrip(s))

\* ---------------------------------------------------------- chunk_segments
\* the state of chunk_segments before its loop
InitAcc == [chunks |-> <<>>, current |-> <<>>, start |-> None, end |-> None]

FitsStrict(cur, words, m) == Len(Split(cur)) + Len(words) < m

FitsWordsOnly(cur, words, m) == Len(words) <= m

\* the test of the if inside the loop
Fits(cur, words, m) == Len(Split(cur)) + Len(words) <= m

\* one iteration of the for loop
LoopBody(acc, seg, m) ==
  LET words == Split(seg.text)
      st    == IF acc.start = None THEN seg.start ELSE acc.start
  IN  IF Fits(acc.current, words, m)
      THEN [chunks  |-> acc.chunks,
            current |-> acc.current \o <<" ">> \o seg.text,
            start   |-> st,
            end     |-> seg.end]
      ELSE [chunks  |-> Append(acc.chunks, <<st, acc.end, Strip(acc.current)>>),
            current |-> seg.text,
            start   |-> seg.start,
            end     |-> seg.end]

FinishRaw(acc) ==
  IF acc.current # <<>>
  THEN Append(acc.chunks, <<acc.start, acc.end, acc.current>>)
  ELSE acc.chunks

\* the trailing "if current:" and the return value
Finish(acc) ==
  IF acc.current # <<>>
  THEN Append(acc.chunks, <<acc.start, acc.end, Strip(acc.current)>>)
  ELSE acc.chunks

RECURSIVE FoldSegs(_, _, _)
FoldSegs(acc, segs, m) ==
  IF segs = <<>> THEN acc ELSE FoldSegs(LoopBody(acc, Head(segs), m), Tail(segs), m)

\* chunk_segments as a function of its arguments
ChunkSegments(segs, m) == Finish(FoldSegs(InitAcc, segs, m))

Acc == [chunks |-> chunks, current |-> current, start |-> start, end |-> end]

Init ==
  /\ segments \in SeqsUpTo(SegOptions, MaxSegs)
  /\ max_words \in 1..MaxM
  /\ chunks = <<>>
  /\ current = <<>>
  /\ start = None
  /\ end = None
  /\ i = 1
  /\ embeds = <<>>
  /\ chapters = <<>>
  /\ ci = 0
  /\ transcript = <<>>
  /\ fi = 0
  /\ pc = "chunk"
  /\ err = "none"

ChunkLoop ==
  /\ pc = "chunk"
  /\ i <= Len(segments)
  /\ LET acc == LoopBody(Acc, segments[i], max_words)
     IN  /\ chunks' = acc.chunks
         /\ current' = acc.current
         /\ start' = acc.start
         /\ end' = acc.end
  /\ i' = i + 1
  /\ UNCHANGED <<segments, max_words, embeds, chapters, ci, transcript, fi, pc, err>>

ChunkReturn ==
  /\ pc = "chunk"
  /\ i > Len(segments)
  /\ chunks' = Finish(Acc)
  /\ pc' = "detect"
  /\ UNCHANGED <<segments, max_words, current, start, end, i,
                 embeds, chapters, ci, transcript, fi, err>>

\* -------------------------------------------------------- chapter_detection
BelowOrEqual(sim) == sim <= Threshold

\* the test "sim < 0.65"
Below(sim) == sim < Threshold

ChapterBodyPrev(chs, cks, k, sim) ==
  IF Below(sim)
  THEN Append(chs, <<cks[k - 1]>>)
  ELSE [chs EXCEPT ![Len(chs)] = Append(@, cks[k])]

\* one iteration of the loop over range(1, len(chunks)); k is the 1-based
\* position of chunks[i], sim the similarity of chunks[i-1] and chunks[i]
ChapterBody(chs, cks, k, sim) ==
  IF Below(sim)
  THEN Append(chs, <<cks[k]>>)
  ELSE [chs EXCEPT ![Len(chs)] = Append(@, cks[k])]

\* texts, embeds = embedder.encode(texts), chapters = [[chunks[0]]]:
\* the embeddings are known by the similarity of each adjacent pair
ChapterInit ==
  /\ pc = "detect"
  /\ IF chunks = <<>>
     THEN /\ pc' = "raised"
          /\ err' = "IndexError"
          /\ UNCHANGED <<embeds, chapters, ci>>
     ELSE /\ embeds' \in [1..(Len(chunks) - 1) -> SimVals]
          /\ chapters' = << <<chunks[1]>> >>
          /\ ci' = 2
          /\ pc' = "chapter"
          /\ err' = err
  /\ UNCHANGED <<segments, max_words, chunks, current, start, end, i, transcript, fi>>

ChapterLoop ==
  /\ pc = "chapter"
  /\ ci <= Len(chunks)
  /\ chapters' = ChapterBody(chapters, chunks, ci, embeds[ci - 1])
  /\ ci' = ci + 1
  /\ UNCHANGED <<segments, max_words, chunks, current, start, end, i,
                 embeds, transcript, fi, pc, err>>

ChapterReturn ==
  /\ pc = "chapter"
  /\ ci > Len(chunks)
  /\ pc' = "format"
  /\ fi' = 1
  /\ UNCHANGED <<segments, max_words, chunks, current, start, end, i,
                 embeds, chapters, ci, transcript, err>>

\* ------------------------------------------------------ transcript building
\* format(x, ".2f") of a whole number of seconds: the integer part and the
\* two decimals
Fmt2(x) == <<x, 0>>

\* a value the .2f format accepts
Numeric(x) == x # None

\* the line f"[{s:.2f}-{e:.2f}] {t}\n"
Line(c) == <<"line", Fmt2(c[1]), Fmt2(c[2]), c[3]>>

FormatChapter ==
  /\ pc = "format"
  /\ fi <= Len(chapters)
  /\ LET ch == chapters[fi]
     IN  IF \A k \in 1..Len(ch) : Numeric(ch[k][1]) /\ Numeric(ch[k][2])
         THEN /\ transcript' = transcript \o <<<<"heading", fi>>>>
                                 \o [k \in 1..Len(ch) |-> Line(ch[k])]
              /\ fi' = fi + 1
              /\ UNCHANGED <<pc, err>>
         ELSE /\ pc' = "raised"
              /\ err' = "TypeError"
              /\ UNCHANGED <<transcript, fi>>
  /\ UNCHANGED <<segments, max_words, chunks, current, start, end, i,
                 embeds, chapters, ci>>

FormatDone ==
  /\ pc = "format"
  /\ fi > Len(chapters)
  /\ pc' = "done"
  /\ UNCHANGED <<segments, max_words, chunks, current, start, end, i,
                 embeds, chapters, ci, transcript, fi, err>>

Next ==
  \/ ChunkLoop
  \/ ChunkReturn
  \/ ChapterInit
  \/ ChapterLoop
  \/ ChapterReturn
  \/ FormatChapter
  \/ FormatDone

\* the main script: chunk_segments, chapter_detection, transcript
Spec == Init /\ [][Next]_vars

\* chunk_segments alone, over every bounded segment sequence
NextChunk == ChunkLoop \/ ChunkReturn

SpecChunk == Init /\ [][NextChunk]_vars

\* chapter_detection alone, over every bounded chunk sequence
InitChapter ==
  /\ segments = <<>>
  /\ max_words = 1
  /\ chunks \in SeqsUpTo(ChunkOptions, MaxChunks)
  /\ current = <<>>
  /\ start = None
  /\ end = None
  /\ i = 1
  /\ embeds = <<>>
  /\ chapters = <<>>
  /\ ci = 0
  /\ transcript = <<>>
  /\ fi = 0
  /\ pc = "detect"
  /\ err = "none"

NextChapter == ChapterInit \/ ChapterLoop \/ ChapterReturn

SpecChapter == InitChapter /\ [][NextChapter]_vars

\* ------------------------------------------------------------- properties
WordCount(s) == Len(Split(s))

RECURSIVE Flatten(_)
Flatten(ss) == IF ss = <<>> THEN <<>> ELSE Head(ss) \o Flatten(Tail(ss))

RECURSIVE SumLen(_, _)
SumLen(ss, k) == IF k = 0 THEN 0 ELSE Len(ss[k]) + SumLen(ss, k - 1)

\* the 1-based positions, in the chunk sequence, of each chapter's first chunk
ChapterStarts == { SumLen(chapters, k - 1) + 1 : k \in 1..Len(chapters) }

\* the words of segments lo..hi, in order
RECURSIVE RunWords(_, _, _)
RunWords(segs, lo, hi) ==
  IF lo > hi THEN <<>> ELSE Split(segs[lo].text) \o RunWords(segs, lo + 1, hi)

AllChunkWords == Flatten([k \in 1..Len(chunks) |-> Split(chunks[k][3])])

WellFormed(segs) ==
  /\ \A k \in 1..Len(segs) : segs[k].start <= segs[k].end
  /\ \A k \in 1..(Len(segs) - 1) : segs[k].end <= segs[k + 1].start

EveryWordy(segs) == \A k \in 1..Len(segs) : Split(segs[k].text) # <<>>

\* the chunks of chunk_segments, fed back in as segments
AsSegments(cks) ==
  [k \in 1..Len(cks) |-> [start |-> cks[k][1], end |-> cks[k][2], text |-> cks[k][3]]]

Returned == pc # "chunk"

\* C1: once chapter_detection has returned, every chapter is non-empty and the
\* chapters, concatenated in order, are exactly the input chunk sequence; while
\* the loop runs they are exactly the chunks visited so far.
Thm_C1 ==
  /\ pc = "chapter" =>
       /\ \A k \in 1..Len(chapters) : chapters[k] # <<>>
       /\ Flatten(chapters) = SubSeq(chunks, 1, ci - 1)
  /\ pc = "format" =>
       /\ chunks # <<>>
       /\ \A k \in 1..Len(chapters) : chapters[k] # <<>>
       /\ Flatten(chapters) = chunks

Wit_C1 ==
  /\ pc = "format"
  /\ Len(chapters) >= 2
  /\ \E k \in 1..Len(chapters) : Len(chapters[k]) >= 2
  /\ \E k \in 1..(Len(chunks) - 1) : chunks[k] # chunks[k + 1]

\* C2: if every segment has at least one word, every chunk has a non-empty
\* text and a set start and end, an oversized segment included.
CE_C2 ==
  EveryWordy(segments) =>
    \A k \in 1..Len(chunks) :
      /\ chunks[k][3] # <<>>
      /\ chunks[k][1] # None
      /\ chunks[k][2] # None

\* C3: every chunk has at most max_words words or is exactly one segment (its
\* start, its end, its stripped text); an accumulator holding more than
\* max_words words holds exactly the segment just read.
Thm_C3 ==
  /\ \A k \in 1..Len(chunks) :
       \/ WordCount(chunks[k][3]) <= max_words
       \/ \E j \in 1..Len(segments) :
            chunks[k] = <<segments[j].start, segments[j].end, Strip(segments[j].text)>>
  /\ (pc = "chunk" /\ WordCount(current) > max_words) =>
       /\ i > 1
       /\ current = segments[i - 1].text
       /\ start = segments[i - 1].start
       /\ end = segments[i - 1].end

Wit_C3 ==
  /\ Returned
  /\ \E k \in 1..Len(chunks) : WordCount(chunks[k][3]) > max_words
  /\ \E k \in 1..Len(chunks) :
       /\ WordCount(chunks[k][3]) = max_words
       /\ chunks[k][3] \notin { Strip(t) : t \in Texts }

\* C4: once chapter_detection has returned, chunk k (k >= 2) starts a chapter
\* exactly when the similarity of chunks k-1 and k is strictly below the
\* threshold, a similarity equal to the threshold starts none, and the number
\* of chapters is 1 plus the number of adjacent pairs strictly below it.
Thm_C4 ==
  pc = "format" =>
    /\ \A k \in 2..Len(chunks) : (k \in ChapterStarts) <=> (embeds[k - 1] < Threshold)
    /\ \A k \in 2..Len(chunks) : embeds[k - 1] = Threshold => k \notin ChapterStarts
    /\ Len(chapters) = 1 + Cardinality({ k \in 1..Len(embeds) : embeds[k] < Threshold })

Wit_C4 ==
  /\ pc = "format"
  /\ \E k \in 1..Len(embeds) : embeds[k] = Threshold
  /\ \E k \in 1..Len(embeds) : embeds[k] = Threshold - 1
  /\ \E k \in 1..Len(embeds) : embeds[k] > Threshold

\* C5: chapter_detection on an empty chunk sequence fails with InvalidInput.
CE_C5 ==
  (chunks = <<>> /\ pc \notin {"chunk", "detect"}) =>
    (pc = "raised" /\ err = "InvalidInput")

\* C6: for a non-empty, time-ordered segment sequence the pipeline raises
\* nothing.
CE_C6 ==
  (segments # <<>> /\ WellFormed(segments)) => pc # "raised"

\* C7: for time-ordered input segments the returned chunks are time-ordered
\* and every chunk start and end is a start or end of an input segment.
CE_C7 ==
  (Returned /\ WellFormed(segments)) =>
    /\ \A k \in 1..Len(chunks) : chunks[k][1] <= chunks[k][2]
    /\ \A k \in 1..(Len(chunks) - 1) : chunks[k][2] <= chunks[k + 1][1]
    /\ \A k \in 1..Len(chunks) :
         /\ chunks[k][1] \in { segments[j].start : j \in 1..Len(segments) }
                               \cup { segments[j].end : j \in 1..Len(segments) }
         /\ chunks[k][2] \in { segments[j].start : j \in 1..Len(segments) }
                               \cup { segments[j].end : j \in 1..Len(segments) }

\* C8: chunking the returned chunks again, with the same max_words, returns
\* the same chunks.
CE_C8 ==
  Returned => ChunkSegments(AsSegments(chunks), max_words) = chunks

\* C8 amended: if every segment has at least one word, chunking the returned
\* chunks again, with the same max_words, returns the same chunks.
Thm_C8 ==
  (Returned /\ EveryWordy(segments)) =>
    ChunkSegments(AsSegments(chunks), max_words) = chunks

Wit_C8 ==
  /\ Returned
  /\ EveryWordy(segments)
  /\ Len(chunks) >= 2
  /\ Len(chunks) < Len(segments)
  /\ \A k \in 1..Len(chunks) : chunks[k][3] # <<>>

\* C9: the returned chunks are consecutive runs of the input segments that
\* cover all of them in order: each chunk has the start of its run's first
\* segment, the end of its last and the run's words; and no segments give no
\* chunks.
CE_C9 ==
  Returned =>
    /\ segments = <<>> => chunks = <<>>
    /\ AllChunkWords = RunWords(segments, 1, Len(segments))
    /\ \E f \in [1..Len(segments) -> 1..Len(chunks)] :
         /\ \A j \in 1..(Len(segments) - 1) : f[j] <= f[j + 1]
         /\ \A k \in 1..Len(chunks) :
              LET run == { j \in 1..Len(segments) : f[j] = k }
              IN  /\ run # {}
                  /\ \E lo \in run, hi \in run :
                       /\ \A j \in run : lo <= j /\ j <= hi
                       /\ chunks[k][1] = segments[lo].start
                       /\ chunks[k][2] = segments[hi].end
                       /\ Split(chunks[k][3]) = RunWords(segments, lo, hi)

\* C10: a loop step closes a chunk only when the segment it reads does not
\* fit: the closed chunk's word count plus that segment's is greater than
\* max_words, and that segment opens the next chunk.
Thm_C10 ==
  [][ (pc = "chunk" /\ Len(chunks') = Len(chunks) + 1 /\ i' = i + 1) =>
        /\ WordCount(chunks'[Len(chunks')][3]) + WordCount(segments[i].text) > max_words
        /\ current' = segments[i].text
        /\ start' = segments[i].start
        /\ end' = segments[i].end ]_vars

Wit_C10 ==
  /\ Returned
  /\ Len(chunks) >= 3
  /\ \A k \in 1..Len(chunks) : chunks[k][3] # <<>>
  /\ \E k \in 1..Len(chunks) : WordCount(chunks[k][3]) < max_words

====
